---- MODULE Spec2Model ----
(***************************************************************************)
(* A model of rumqttc/src/client.rs: AsyncClient / Client (request and     *)
(* cancel submission over bounded channels), Connection (owner of the      *)
(* event loop and of an optional runtime) and Iter (the iterator that      *)
(* takes the runtime out of the Connection, polls the event loop and puts  *)
(* the runtime back when dropped).                                         *)
(*                                                                         *)
(* EventLoop (new, handle, take_cancel_handle, set_reconnection_delay,     *)
(* poll) is defined in another file of the crate; the operators modelling  *)
(* it follow the written specification of that interface.                  *)
(***************************************************************************)
EXTENDS Integers, Sequences, FiniteSets, TLC

\* ------------------------------------------------------------------ bounds
\* calls of publish/subscribe made in all, by all clients
MaxCalls == 2
\* iter() calls made on the Connection
MaxRounds == 2
\* `cap` handed to Client::new / AsyncClient::new
Cap == 1
\* capacity of the cancellation channel ("single-slot")
CancelCap == 1

Clients == {"c1", "c2"}
FirstClient == "c1"
Kinds == {"Publish", "Subscribe"}
\* ConnectionError kinds other than RequestsDone and Cancel
OtherErrors == {"Io", "Mqtt"}
\* Duration::from_secs(1), and the delays a caller may set (seconds)
DefaultDelay == 1
Delays == {1, 5}

\* ------------------------------------------------------------------ values
NoReq == [kind |-> "-", by |-> "-", seq |-> 0]
Req(k, c, n) == [kind |-> k, by |-> c, seq |-> n]

\* Option<Runtime>: None, or Some(runtime) with the runtime named by a number
NoRuntime == -1
InitialRuntime == 0

\* Option<Result<Event, ConnectionError>> as returned by Iter::next
None == [opt |-> "None", tag |-> "-", what |-> "-", req |-> NoReq]
Some(r) == [opt |-> "Some", tag |-> r.tag, what |-> r.what, req |-> r.req]
\* a Driver that was not advanced yet has returned nothing
NotAdvanced == [opt |-> "-", tag |-> "-", what |-> "-", req |-> NoReq]

\* Result<Event, ConnectionError> as returned by EventLoop::poll
OkEvent(w, r) == [tag |-> "Ok", what |-> w, req |-> r]
Error(w) == [tag |-> "Err", what |-> w, req |-> NoReq]
NotPolled == [tag |-> "-", what |-> "-", req |-> NoReq]

\* what an Iter remembers of the advance before its last one: the kind of
\* item next() returned ("Ok", "Err", "None", or "-" when there was no such
\* advance) and, for "None", the error poll had reported
ItemKind(item) == IF item.opt = "Some" THEN item.tag ELSE item.opt
Advance(polled, item) ==
    [item |-> ItemKind(item),
     cause |-> IF item.opt = "None" THEN polled.what ELSE "-"]

VARIABLES
    runtime,            \* Connection.runtime : Option<Runtime>
    iters,              \* the live Iter values: [runtime, polled, last, prev, gen]
    alive,              \* the Connection (and its EventLoop) is not dropped
    reconnection_delay, \* the event loop's reconnection delay, seconds
    requests,           \* the request channel's queue
    cancels,            \* the number of signals queued in the cancel channel
    pc,                 \* per client: "absent", "idle", "send", "cancel", "dropped"
    pending,            \* per client: the request a suspended send holds
    result,             \* per client: what its last completed call returned
    calls,              \* per client: publish/subscribe calls made
    built,              \* runtimes built by Iter::drop
    panicked,           \* iter() hit unwrap() on None
    submitted,          \* history: requests whose call returned Ok, in order
    observed            \* history: requests the event loop dequeued, in order

vars == <<runtime, iters, alive, reconnection_delay, requests, cancels, pc,
          pending, result, calls, built, panicked, submitted, observed>>

conn_vars == <<runtime, iters, built, panicked>>
client_vars == <<pc, pending, result, calls, submitted>>
chan_vars == <<requests, cancels, observed>>

\* ------------------------------------------------------------------ channels
\* Sender<Request> handles alive: one per Client/AsyncClient clone
senders == Cardinality({c \in Clients : pc[c] \notin {"absent", "dropped"}})

RECURSIVE Sum(_, _)
Sum(f, S) == IF S = {} THEN 0
             ELSE LET x == CHOOSE y \in S : TRUE IN f[x] + Sum(f, S \ {x})

\* publish/subscribe calls made so far
total_calls == Sum(calls, Clients)

\* the receivers live in the EventLoop the Connection owns
request_closed == ~alive
cancel_closed == ~alive

\* ------------------------------------------------------------------ Init
\* the state after Client::new(options, cap)
Init ==
    /\ runtime = InitialRuntime
    /\ iters = {}
    /\ alive = TRUE
    /\ reconnection_delay = DefaultDelay
    /\ requests = <<>>
    /\ cancels = 0
    /\ pc = [c \in Clients |-> IF c = FirstClient THEN "idle" ELSE "absent"]
    /\ pending = [c \in Clients |-> NoReq]
    /\ result = [c \in Clients |-> "-"]
    /\ calls = [c \in Clients |-> 0]
    /\ built = 0
    /\ panicked = FALSE
    /\ submitted = <<>>
    /\ observed = <<>>

\* ------------------------------------------------------------------ ClientError
\* #[from] SendError<()> -> ClientError::Cancel, #[from] SendError<Request> ->
\* ClientError::Request: the `?` of a failed send picks the variant by channel
ClientError(channel) == IF channel = "cancel" THEN "Cancel" ELSE "Request"

\* ------------------------------------------------------------------ Client
\* a wrapper that throws the outcome of the asynchronous call away:
\* let _ = pollster::block_on(..); Ok(())
Client_return_ignoring(r) == "Ok"

\* what a Client method returns for the outcome r of the AsyncClient method it
\* ran to completion: pollster::block_on(self.client.<op>(..))?; Ok(())
\* `?` returns an Err as it is (ClientError into ClientError), Ok(()) follows
Client_return(r) == IF r = "Ok" THEN "Ok" ELSE r

\* ------------------------------------------------------------------ AsyncClient
\* a try_send whose result is ignored: on a full channel the request is
\* dropped and the call still returns Ok
request_send_ignoring_full(c, req) ==
    /\ calls' = [calls EXCEPT ![c] = @ + 1]
    /\ IF request_closed
       THEN /\ result' = [result EXCEPT ![c] = ClientError("request")]
            /\ UNCHANGED <<requests, submitted>>
       ELSE /\ requests' = IF Len(requests) < Cap THEN Append(requests, req)
                           ELSE requests
            /\ submitted' = Append(submitted, req)
            /\ result' = [result EXCEPT ![c] = "Ok"]
    /\ UNCHANGED <<pc, pending, cancels, observed, alive, reconnection_delay>>
    /\ UNCHANGED conn_vars

\* a try_send with `?`: a full channel is reported like a closed one
request_send_failing_full(c, req) ==
    /\ calls' = [calls EXCEPT ![c] = @ + 1]
    /\ IF request_closed \/ Len(requests) >= Cap
       THEN /\ result' = [result EXCEPT ![c] = ClientError("request")]
            /\ UNCHANGED <<requests, submitted>>
       ELSE /\ requests' = Append(requests, req)
            /\ submitted' = Append(submitted, req)
            /\ result' = [result EXCEPT ![c] = "Ok"]
    /\ UNCHANGED <<pc, pending, cancels, observed, alive, reconnection_delay>>
    /\ UNCHANGED conn_vars

\* a send that buffers beyond the capacity instead of suspending
request_send_unbounded(c, req) ==
    /\ calls' = [calls EXCEPT ![c] = @ + 1]
    /\ IF request_closed
       THEN /\ result' = [result EXCEPT ![c] = ClientError("request")]
            /\ UNCHANGED <<requests, submitted>>
       ELSE /\ requests' = Append(requests, req)
            /\ submitted' = Append(submitted, req)
            /\ result' = [result EXCEPT ![c] = "Ok"]
    /\ UNCHANGED <<pc, pending, cancels, observed, alive, reconnection_delay>>
    /\ UNCHANGED conn_vars

\* self.request_tx.send(request).await? ; Ok(())
\* A send on a closed channel fails at once, a send on a channel with room
\* enqueues and returns, a send on a full channel suspends (see request_sent).
request_send(c, req) ==
    /\ calls' = [calls EXCEPT ![c] = @ + 1]
    /\ IF request_closed
       THEN /\ result' = [result EXCEPT ![c] = Client_return(ClientError("request"))]
            /\ UNCHANGED <<pc, pending, requests, submitted>>
       ELSE IF Len(requests) < Cap
       THEN /\ requests' = Append(requests, req)
            /\ submitted' = Append(submitted, req)
            /\ result' = [result EXCEPT ![c] = Client_return("Ok")]
            /\ UNCHANGED <<pc, pending>>
       ELSE /\ pc' = [pc EXCEPT ![c] = "send"]
            /\ pending' = [pending EXCEPT ![c] = req]
            /\ result' = [result EXCEPT ![c] = "-"]
            /\ UNCHANGED <<requests, submitted>>
    /\ UNCHANGED <<cancels, observed, alive, reconnection_delay>>
    /\ UNCHANGED conn_vars

\* Client::publish: AsyncClient::publish run to completion by block_on
publish(c) ==
    /\ pc[c] = "idle"
    /\ total_calls < MaxCalls
    /\ request_send(c, Req("Publish", c, calls[c] + 1))

\* Client::subscribe: AsyncClient::subscribe run to completion by block_on
subscribe(c) ==
    /\ pc[c] = "idle"
    /\ total_calls < MaxCalls
    /\ request_send(c, Req("Subscribe", c, calls[c] + 1))

\* a suspended send that is not woken when the receiver is dropped
request_sent_unless_closed(c) ==
    /\ pc[c] = "send"
    /\ ~request_closed
    /\ Len(requests) < Cap
    /\ pc' = [pc EXCEPT ![c] = "idle"]
    /\ pending' = [pending EXCEPT ![c] = NoReq]
    /\ requests' = Append(requests, pending[c])
    /\ submitted' = Append(submitted, pending[c])
    /\ result' = [result EXCEPT ![c] = "Ok"]
    /\ UNCHANGED <<calls, cancels, observed, alive, reconnection_delay>>
    /\ UNCHANGED conn_vars

\* a send that is retried after it went through: the request is enqueued and
\* the call stays suspended, to enqueue it once more
request_sent_retrying(c) ==
    /\ pc[c] = "send"
    /\ request_closed \/ Len(requests) < Cap
    /\ IF request_closed
       THEN /\ result' = [result EXCEPT ![c] = ClientError("request")]
            /\ pc' = [pc EXCEPT ![c] = "idle"]
            /\ pending' = [pending EXCEPT ![c] = NoReq]
            /\ UNCHANGED <<requests, submitted>>
       ELSE /\ requests' = Append(requests, pending[c])
            /\ submitted' = IF pending[c] \in {submitted[i] : i \in 1..Len(submitted)}
                            THEN submitted ELSE Append(submitted, pending[c])
            /\ UNCHANGED <<pc, pending, result>>
    /\ UNCHANGED <<calls, cancels, observed, alive, reconnection_delay>>
    /\ UNCHANGED conn_vars

\* the suspended send of publish/subscribe completes: the channel was closed
\* (Err through `?`) or has room again (the request is enqueued, Ok)
request_sent(c) ==
    /\ pc[c] = "send"
    /\ request_closed \/ Len(requests) < Cap
    /\ pc' = [pc EXCEPT ![c] = "idle"]
    /\ pending' = [pending EXCEPT ![c] = NoReq]
    /\ IF request_closed
       THEN /\ result' = [result EXCEPT ![c] = Client_return(ClientError("request"))]
            /\ UNCHANGED <<requests, submitted>>
       ELSE /\ requests' = Append(requests, pending[c])
            /\ submitted' = Append(submitted, pending[c])
            /\ result' = [result EXCEPT ![c] = Client_return("Ok")]
    /\ UNCHANGED <<calls, cancels, observed, alive, reconnection_delay>>
    /\ UNCHANGED conn_vars

\* Client::cancel: AsyncClient::cancel, self.cancel_tx.send(()).await? ; Ok(()),
\* run to completion by block_on
cancel(c) ==
    /\ pc[c] = "idle"
    /\ IF cancel_closed
       THEN /\ result' = [result EXCEPT ![c] = Client_return(ClientError("cancel"))]
            /\ UNCHANGED <<pc, cancels>>
       ELSE IF cancels < CancelCap
       THEN /\ cancels' = cancels + 1
            /\ result' = [result EXCEPT ![c] = Client_return("Ok")]
            /\ UNCHANGED pc
       ELSE /\ pc' = [pc EXCEPT ![c] = "cancel"]
            /\ result' = [result EXCEPT ![c] = "-"]
            /\ UNCHANGED cancels
    /\ UNCHANGED <<pending, calls, submitted, requests, observed, alive,
                   reconnection_delay>>
    /\ UNCHANGED conn_vars

\* the suspended send of cancel completes
cancel_sent(c) ==
    /\ pc[c] = "cancel"
    /\ cancel_closed \/ cancels < CancelCap
    /\ pc' = [pc EXCEPT ![c] = "idle"]
    /\ IF cancel_closed
       THEN /\ result' = [result EXCEPT ![c] = Client_return(ClientError("cancel"))]
            /\ UNCHANGED cancels
       ELSE /\ cancels' = cancels + 1
            /\ result' = [result EXCEPT ![c] = Client_return("Ok")]
    /\ UNCHANGED <<pending, calls, submitted, requests, observed, alive,
                   reconnection_delay>>
    /\ UNCHANGED conn_vars

\* #[derive(Clone)]: a clone holds its own Sender handles
clone(c, d) ==
    /\ pc[c] = "idle"
    /\ pc[d] = "absent"
    /\ pc' = [pc EXCEPT ![d] = "idle"]
    /\ UNCHANGED <<pending, result, calls, submitted>>
    /\ UNCHANGED chan_vars
    /\ UNCHANGED <<alive, reconnection_delay>>
    /\ UNCHANGED conn_vars

\* a Client/AsyncClient goes out of scope: its Sender handles are dropped
drop_client(c) ==
    /\ pc[c] = "idle"
    /\ pc' = [pc EXCEPT ![c] = "dropped"]
    /\ UNCHANGED <<pending, result, calls, submitted>>
    /\ UNCHANGED chan_vars
    /\ UNCHANGED <<alive, reconnection_delay>>
    /\ UNCHANGED conn_vars

\* ------------------------------------------------------------------ EventLoop
\* EventLoop::poll: the outcomes one poll can have, each with the channels'
\* state after it.  A queued cancellation signal is observed on the next poll;
\* with every request sender dropped the poll reports RequestsDone; otherwise
\* it hands out the oldest queued request, an incoming event or an error.
poll ==
    IF cancels > 0
    THEN {[result |-> Error("Cancel"), requests |-> requests,
           cancels |-> cancels - 1, observed |-> observed]}
    ELSE IF senders = 0
    THEN {[result |-> Error("RequestsDone"), requests |-> requests,
           cancels |-> cancels, observed |-> observed]}
    ELSE {[result |-> OkEvent("Outgoing", Head(requests)),
           requests |-> Tail(requests), cancels |-> cancels,
           observed |-> Append(observed, Head(requests))] : x \in
              IF requests # <<>> THEN {1} ELSE {}}
         \cup {[result |-> OkEvent("Incoming", NoReq), requests |-> requests,
                cancels |-> cancels, observed |-> observed]}
         \cup {[result |-> Error(e), requests |-> requests,
                cancels |-> cancels, observed |-> observed] : e \in OtherErrors}

\* ------------------------------------------------------------------ Connection
\* a setter that adds the delay to the current one instead of replacing it
set_reconnection_delay_adding(delay) ==
    /\ alive
    /\ iters = {}
    /\ ~panicked
    /\ reconnection_delay' = reconnection_delay + delay
    /\ UNCHANGED alive
    /\ UNCHANGED conn_vars
    /\ UNCHANGED client_vars
    /\ UNCHANGED chan_vars

\* Connection::set_reconnection_delay (forwards to the event loop)
set_reconnection_delay(delay) ==
    /\ alive
    /\ iters = {}
    /\ ~panicked
    /\ reconnection_delay' = delay
    /\ UNCHANGED alive
    /\ UNCHANGED conn_vars
    /\ UNCHANGED client_vars
    /\ UNCHANGED chan_vars

\* a take that leaves the value in place (a copy, not a move)
take_copying(opt) == [value |-> opt, left |-> opt]

\* Option::take: the value, and what is left behind
take(opt) == [value |-> opt, left |-> NoRuntime]

\* an unwrap_or_else that builds a runtime when there is none
unwrap_or_build(opt) ==
    [panic |-> FALSE, value |-> IF opt = NoRuntime THEN InitialRuntime ELSE opt]

\* Option::unwrap: the value of Some, a panic on None
unwrap(opt) == [panic |-> opt = NoRuntime, value |-> opt]

\* Connection::iter: let runtime = self.runtime.take().unwrap(); Iter {..}
\* The borrow of the Connection an Iter holds keeps a caller from reaching
\* iter() while that Iter lives; the model lets the call happen, so that what
\* take().unwrap() does with an empty slot is part of the behaviour.
iter ==
    /\ alive
    /\ ~panicked
    /\ built + Cardinality(iters) < MaxRounds
    /\ LET taken == take(runtime)
           got == unwrap(taken.value)
       IN
       /\ runtime' = taken.left
       /\ IF got.panic
          THEN /\ panicked' = TRUE
               /\ UNCHANGED iters
          ELSE /\ iters' = iters \cup {[runtime |-> got.value,
                                        polled |-> NotPolled,
                                        last |-> NotAdvanced,
                                        prev |-> Advance(NotPolled, NotAdvanced),
                                        gen |-> built + Cardinality(iters)]}
               /\ UNCHANGED panicked
    /\ UNCHANGED <<built, alive, reconnection_delay>>
    /\ UNCHANGED client_vars
    /\ UNCHANGED chan_vars

\* the Connection goes out of scope (no Iter borrows it): the EventLoop and
\* with it both receivers are dropped, which closes both channels
drop_connection ==
    /\ alive
    /\ iters = {}
    /\ ~panicked
    /\ alive' = FALSE
    /\ UNCHANGED reconnection_delay
    /\ UNCHANGED conn_vars
    /\ UNCHANGED client_vars
    /\ UNCHANGED chan_vars

\* ------------------------------------------------------------------ Iter
\* a match whose last arm drops the error instead of yielding it
next_match_swallowing(r) ==
    IF r.tag = "Ok" THEN Some(r) ELSE None

\* a match without the Cancel arm: Cancel falls through to Err(e)
next_match_without_cancel(r) ==
    IF r.tag = "Ok" THEN Some(r)
    ELSE IF r.what = "RequestsDone" THEN None
    ELSE Some(r)

\* a match without the RequestsDone arm: it falls through to Err(e)
next_match_without_done(r) ==
    IF r.tag = "Ok" THEN Some(r)
    ELSE IF r.what = "Cancel" THEN None
    ELSE Some(r)

\* a match that reports incoming packets only: the event of a dequeued
\* request is not yielded
next_match_incoming_only(r) ==
    IF r.tag = "Ok" THEN (IF r.what = "Incoming" THEN Some(r) ELSE None)
    ELSE IF r.what = "RequestsDone" THEN None
    ELSE IF r.what = "Cancel" THEN None
    ELSE Some(r)

\* the match of Iter::next on the poll result
next_match(r) ==
    IF r.tag = "Ok" THEN Some(r)
    ELSE IF r.what = "RequestsDone" THEN None
    ELSE IF r.what = "Cancel" THEN None
    ELSE Some(r)

\* a next that hands the runtime back to the Connection as soon as the
\* sequence ends, instead of leaving that to drop
next_releasing_at_end(it) ==
    /\ it \in iters
    /\ ~panicked
    /\ \E o \in poll :
        /\ requests' = o.requests
        /\ cancels' = o.cancels
        /\ observed' = o.observed
        /\ runtime' = IF next_match(o.result) = None THEN it.runtime ELSE runtime
        /\ iters' = (iters \ {it}) \cup
                    {[it EXCEPT !.prev = Advance(it.polled, it.last),
                                !.polled = o.result,
                                !.last = next_match(o.result),
                                !.runtime = IF next_match(o.result) = None
                                            THEN NoRuntime ELSE it.runtime]}
    /\ UNCHANGED <<built, panicked, alive, reconnection_delay>>
    /\ UNCHANGED client_vars

\* Iter::next: block_on(self.connection.eventloop.poll()), then the match
next(it) ==
    /\ it \in iters
    /\ ~panicked
    /\ \E o \in poll :
        /\ requests' = o.requests
        /\ cancels' = o.cancels
        /\ observed' = o.observed
        /\ iters' = (iters \ {it}) \cup
                    {[it EXCEPT !.prev = Advance(it.polled, it.last),
                                !.polled = o.result,
                                !.last = next_match(o.result)]}
    /\ UNCHANGED <<runtime, built, panicked, alive, reconnection_delay>>
    /\ UNCHANGED client_vars

\* mem::replace(dest, src): dest now holds src, the old value is returned
mem_replace(dest, src) == [returned |-> dest, dest |-> src]

\* a drop that gives the runtime back only once the iterator has ended
restored_when_ended(it, new) ==
    IF it.last.opt = "None" THEN it.runtime ELSE NoRuntime

\* a drop that keeps the old runtime in the Iter and stores the one it has
\* just built in the Connection
restored_fresh(it, new) == mem_replace(it.runtime, new).dest

\* what Iter::drop stores in connection.runtime:
\* Some(mem::replace(&mut self.runtime, runtime))
restored(it, new) == mem_replace(it.runtime, new).returned

\* Iter::drop: builds a new runtime, swaps it into the Iter and stores the
\* Iter's runtime in the Connection; the Iter is gone afterwards, and the
\* runtime just built with it
drop(it) ==
    /\ it \in iters
    /\ LET new == built + 1
       IN  /\ runtime' = restored(it, new)
           /\ built' = new
    /\ iters' = iters \ {it}
    /\ UNCHANGED <<panicked, alive, reconnection_delay>>
    /\ UNCHANGED client_vars
    /\ UNCHANGED chan_vars

\* ------------------------------------------------------------------ Spec
Next ==
    \/ \E c \in Clients : publish(c)
    \/ \E c \in Clients : subscribe(c)
    \/ \E c \in Clients : request_sent(c)
    \/ \E c \in Clients : cancel(c)
    \/ \E c \in Clients : cancel_sent(c)
    \/ \E c, d \in Clients : clone(c, d)
    \/ \E c \in Clients : drop_client(c)
    \/ \E delay \in Delays : set_reconnection_delay(delay)
    \/ iter
    \/ \E it \in iters : next(it)
    \/ \E it \in iters : drop(it)
    \/ drop_connection

Spec == Init /\ [][Next]_vars

\* a suspended send that can complete does complete: the task waiting in
\* send(..).await is woken when the channel gets room or is closed, and
\* block_on (Client) polls it again when it is woken
FairSpec == Spec /\ \A c \in Clients : WF_vars(request_sent(c))

TypeOK ==
    /\ runtime \in {NoRuntime} \cup (0..MaxRounds)
    /\ cancels \in 0..CancelCap
    /\ Len(requests) <= Cap

\* ------------------------------------------------------------------ claims

\* C1: the Connection's runtime is held by exactly one of the Connection and
\* a live Iter, never by both and never by neither.
C1_ExactlyOneHolder ==
    (IF runtime # NoRuntime THEN 1 ELSE 0)
    + Cardinality({it \in iters : it.runtime # NoRuntime}) = 1

\* a second Iter is live and was advanced, after a first one was released
C1_Witness ==
    /\ built >= 1
    /\ runtime = NoRuntime
    /\ \E it \in iters : it.last.opt = "Some"

\* C2: whenever no Iter is live the Connection holds a runtime, so that the
\* take().unwrap() of the next iter() finds one, whatever the released Iter
\* had done before (nothing, Ok items, an Err item, the end of the sequence).
C2_IterAgainSucceeds ==
    iters = {} => ~unwrap(take(runtime).value).panic

\* an Iter was released and the iter() made after it handed out a new Iter,
\* which holds the runtime now
C2_Witness ==
    /\ built >= 1
    /\ ~panicked
    /\ \E it \in iters : it.gen = built /\ it.runtime # NoRuntime

\* C3: at most one Iter of the Connection is live: an iter() made while an
\* Iter is live builds no second Iter.
C3_AtMostOneDriver ==
    Cardinality(iters) <= 1

\* iter() was called while an Iter was live: it panicked and the first Iter
\* is still the only one
C3_Witness ==
    /\ panicked
    /\ Cardinality(iters) = 1

Graceful == {"RequestsDone", "Cancel"}

\* C4 as claimed: once an Iter has yielded an Err item, every later advance
\* of that Iter yields no item.
C4_ErrThenEnds ==
    \A it \in iters : it.prev.item = "Err" => it.last = None

\* C4, amended: an advance whose poll reports an error other than
\* RequestsDone and Cancel yields one Err item carrying that error; the Iter
\* keeps nothing of it, and the advance after an Err item yields the item of
\* its own poll: Some for Ok and for such an error, nothing for RequestsDone
\* and Cancel.
C4_ErrYieldedNotTerminal ==
    \A it \in iters :
        /\ (it.polled.tag = "Err" /\ it.polled.what \notin Graceful)
              => (it.last.opt = "Some" /\ it.last.tag = "Err"
                  /\ it.last.what = it.polled.what)
        /\ it.prev.item = "Err"
              => (it.last = None <=> it.polled.what \in Graceful)

\* an Iter yielded an Err item and then, advanced again, an Ok item
C4_Witness ==
    \E it \in iters :
        it.prev.item = "Err" /\ it.last.opt = "Some" /\ it.last.tag = "Ok"

\* C5: a cancel() that returns Ok leaves a signal queued, and an advance made
\* while a signal is queued returns no item, also with requests queued.
C5_CancelEndsSequence ==
    [][ /\ \A c \in Clients :
             ((cancel(c) \/ cancel_sent(c)) /\ result'[c] = "Ok") => cancels' > 0
        /\ \A it \in iters :
             (cancels > 0 /\ next(it)) => \A jt \in iters' : jt.last = None
      ]_vars

\* an advance consumed the cancellation signal and returned no item while a
\* request was queued
C5_Witness ==
    /\ requests # <<>>
    /\ \E it \in iters : it.polled = Error("Cancel") /\ it.last = None

\* C6: with every request sender dropped an advance returns no item, and no
\* Iter ever yields Err(RequestsDone) or Err(Cancel).
C6_SendersGoneEndsSequence ==
    /\ [](\A it \in iters : ~(it.last.tag = "Err" /\ it.last.what \in Graceful))
    /\ [][\A it \in iters :
             (senders = 0 /\ next(it)) => \A jt \in iters' : jt.last = None]_vars

\* every client was dropped and the advance after that, whose poll reported
\* RequestsDone, returned no item
C6_Witness ==
    /\ senders = 0
    /\ \E it \in iters : it.polled = Error("RequestsDone") /\ it.last = None

\* C7 as claimed: once an advance of an Iter has returned no item, every
\* later advance of that Iter returns no item.
C7_EndedStaysEnded ==
    \A it \in iters : it.prev.item = "None" => it.last = None

\* C7, amended: the advance after one that returned no item polls again and
\* returns no item exactly when that poll reports RequestsDone or Cancel
\* again; that is always so after RequestsDone, and need not be so after
\* Cancel.
C7_EndedPollsAgain ==
    \A it \in iters :
        it.prev.item = "None" =>
            /\ it.last = None <=> it.polled.what \in Graceful
            /\ it.prev.cause = "RequestsDone" => it.last = None

\* an Iter ended by RequestsDone was advanced again and returned no item
C7_Witness ==
    \E it \in iters :
        /\ it.prev.item = "None"
        /\ it.prev.cause = "RequestsDone"
        /\ it.last = None

Range(q) == {q[i] : i \in 1..Len(q)}

C9_SendErrors ==
    /\ [](/\ \A c \in Clients : result[c] = "Request" => request_closed
          /\ \A c \in Clients : result[c] = "Cancel" => cancel_closed
          /\ Range(requests) \cup Range(observed) \subseteq Range(submitted))
    /\ [][\A c \in Clients :
            /\ (publish(c) \/ subscribe(c) \/ request_sent(c)) =>
                  /\ result'[c] = "Request" <=> request_closed
                  /\ result'[c] \in {"Ok", "-", "Request"}
                  /\ result'[c] = "Request" =>
                        /\ requests' = requests
                        /\ pc'[c] = "idle" /\ pending'[c] = NoReq
            /\ (cancel(c) \/ cancel_sent(c)) =>
                  /\ result'[c] = "Cancel" <=> cancel_closed
                  /\ result'[c] \in {"Ok", "-", "Cancel"}
                  /\ result'[c] = "Cancel" =>
                        /\ cancels' = cancels
                        /\ pc'[c] = "idle"
          ]_vars

\* after the Connection was dropped one client's publish/subscribe failed
\* with Request and another's cancel with Cancel, nothing being enqueued
C9_Witness ==
    /\ request_closed /\ cancel_closed
    /\ requests = <<>> /\ cancels = 0
    /\ \E c, d \in Clients : result[c] = "Request" /\ result[d] = "Cancel"

\* C10: a cancel() made before the event loop has consumed an earlier signal
\* completes with Ok without waiting for the event loop: no cancel() is ever
\* left suspended in its send.
C10_DuplicateCancelNeverWaits ==
    \A c \in Clients : pc[c] # "cancel"

\* the requests of one producer in a queue or history, in its order
ByProducer(q, c) == SelectSeq(q, LAMBDA r : r.by = c)

C12_ReconnectionDelay ==
    /\ reconnection_delay = 1
    /\ [][ /\ \A d \in Delays :
                 set_reconnection_delay(d) => reconnection_delay' = d
           /\ reconnection_delay' # reconnection_delay =>
                 \E d \in Delays : set_reconnection_delay(d)
         ]_vars

\* the delay was set to 5 seconds and is still 5 after an Iter was built,
\* advanced and released and after a request was sent and dequeued
C12_Witness ==
    /\ reconnection_delay = 5
    /\ built >= 1
    /\ observed # <<>>
    /\ \E c \in Clients : result[c] = "Ok"

\* C13: the request queue never holds more than cap requests, and a publish or
\* subscribe made on a full open queue suspends with its request, the queue
\* staying as it is.
C13_QueueBounded ==
    /\ [](Len(requests) <= Cap)
    /\ [][\A c \in Clients :
            ((publish(c) \/ subscribe(c))
                 /\ Len(requests) = Cap /\ ~request_closed) =>
               /\ pc'[c] = "send"
               /\ pending'[c] # NoReq
               /\ requests' = requests
               /\ result'[c] = "-"
          ]_vars

\* the queue is full of one client's requests and the other client waits in
\* a suspended send
C13_Witness ==
    /\ Len(requests) = Cap
    /\ \E c \in Clients :
          /\ pc[c] = "send"
          /\ \A i \in 1..Len(requests) : requests[i].by # c

\* C14: a release of an Iter that holds the runtime it took at iter() builds
\* no runtime; one is built only when the Iter holds none.
C14_NoRuntimeBuiltOnNormalRelease ==
    [][\A it \in iters :
         (drop(it) /\ it.runtime # NoRuntime) => built' = built]_vars

C16_OnePollOneItem ==
    [][\A it \in iters :
         next(it) =>
            \E o \in poll :
               /\ requests' = o.requests
               /\ cancels' = o.cancels
               /\ observed' = o.observed
               /\ Len(observed') <= Len(observed) + 1
               /\ \E nit \in iters' :
                     /\ nit.gen = it.gen
                     /\ nit.polled = o.result
                     /\ nit.prev = Advance(it.polled, it.last)
                     /\ o.result.tag = "Ok" => nit.last = Some(o.result)
                     /\ (o.result.tag = "Ok" /\ o.result.what = "Outgoing") =>
                           /\ nit.last.req = Head(requests)
                           /\ observed' = Append(observed, nit.last.req)]_vars

\* an Iter yielded two Ok items in a row, the second one the event of the
\* second request the event loop dequeued
C16_Witness ==
    /\ Len(observed) = 2
    /\ \E it \in iters :
          /\ it.prev.item = "Ok"
          /\ it.polled = OkEvent("Outgoing", observed[2])
          /\ it.last = Some(it.polled)

\* C17: a Client method returns what the AsyncClient method returns from the
\* same channel state and leaves both channels as that method leaves them:
\* the error of the closed channel and nothing queued, or Ok and the request
\* (the signal) queued; with free capacity it returns at once, whether or
\* not an Iter is alive.
C17_ClientAsAsyncClient ==
    [][\A c \in Clients :
         /\ (publish(c) \/ subscribe(c) \/ request_sent(c)) =>
               /\ cancels' = cancels
               /\ request_closed =>
                     /\ result'[c] = ClientError("request")
                     /\ requests' = requests
                     /\ pc'[c] = "idle"
               /\ (~request_closed /\ Len(requests) < Cap) =>
                     /\ result'[c] = "Ok"
                     /\ Len(requests') = Len(requests) + 1
                     /\ SubSeq(requests', 1, Len(requests)) = requests
                     /\ requests'[Len(requests')].by = c
                     /\ pc'[c] = "idle"
               /\ (~request_closed /\ Len(requests) >= Cap) =>
                     /\ requests' = requests
                     /\ pc'[c] = "send"
         /\ (cancel(c) \/ cancel_sent(c)) =>
               /\ requests' = requests
               /\ cancel_closed =>
                     /\ result'[c] = ClientError("cancel")
                     /\ cancels' = cancels
                     /\ pc'[c] = "idle"
               /\ (~cancel_closed /\ cancels < CancelCap) =>
                     /\ result'[c] = "Ok"
                     /\ cancels' = cancels + 1
                     /\ pc'[c] = "idle"
               /\ (~cancel_closed /\ cancels >= CancelCap) =>
                     /\ cancels' = cancels
                     /\ pc'[c] = "cancel"]_vars

\* no Iter was ever made, and yet a publish or subscribe and a cancel have
\* returned Ok with their request and signal queued
C17_Witness ==
    /\ iters = {}
    /\ built = 0
    /\ observed = <<>>
    /\ requests # <<>>
    /\ cancels = 1
    /\ \E c \in Clients : result[c] = "Ok" /\ pc[c] = "idle"

\* C18: the runtime Iter::drop stores in the Connection is the one iter()
\* took out of it, never the one drop has just built: whoever holds the
\* Connection's runtime holds the runtime of Client::new, after any number of
\* iter()/drop rounds.
C18_RuntimeKeepsIdentity ==
    /\ runtime \in {NoRuntime, InitialRuntime}
    /\ \A it \in iters : it.runtime = InitialRuntime
    /\ (iters = {} /\ ~panicked) => runtime = InitialRuntime

\* two Iters were made and dropped, two runtimes were built on the way, and
\* the Connection holds the runtime it started with
C18_Witness ==
    /\ built >= 2
    /\ iters = {}
    /\ runtime = InitialRuntime

\* C19: an advance of an Iter leaves the runtime where it is, whatever the
\* poll returned: the Iter holds it afterwards and the Connection holds what
\* it held; publish, subscribe, cancel (and their completions) and
\* set_reconnection_delay move no runtime either and build none.
C19_OwnershipFrame ==
    [][/\ \A it \in iters :
            next(it) =>
               /\ runtime' = runtime
               /\ built' = built
               /\ \E nit \in iters' : nit.gen = it.gen /\ nit.runtime = it.runtime
               /\ Cardinality(iters') = Cardinality(iters)
       /\ ( \/ \E c \in Clients :
                  \/ publish(c) \/ subscribe(c) \/ request_sent(c)
                  \/ cancel(c) \/ cancel_sent(c)
            \/ \E d \in Delays : set_reconnection_delay(d) ) =>
               /\ runtime' = runtime
               /\ built' = built
               /\ iters' = iters]_vars

\* an Iter got an item, then a cancellation ended its sequence, and it still
\* holds the runtime while the Connection holds none; a request is queued
C19_Witness ==
    /\ runtime = NoRuntime
    /\ requests # <<>>
    /\ \E it \in iters :
          /\ it.runtime = InitialRuntime
          /\ it.prev.item \in {"Ok", "Err"}
          /\ it.last = None
          /\ it.polled = Error("Cancel")

====
